---------------------------- MODULE Spec2Model ----------------------------
(***************************************************************************)
(* Model of scripts/custom_colormap_functions.py: the two colormap         *)
(* generators segment_uniform and helix_uniform.                           *)
(*                                                                         *)
(* Floating point quantities are carried in fixed point:                   *)
(*   positions and RGB components   in thousandths (1.0 = One)             *)
(*   J', M', a', b'                 in tenths                              *)
(*   angles in radians              in units of pi/12 (15 degrees)         *)
(* Where a float may be non-finite (the adapter's output, an endpoint      *)
(* given by the caller) it is a record: Fin(n), NaN, PosInf or NegInf.     *)
(***************************************************************************)
EXTENDS Integers, Sequences, FiniteSets, TLC

VARIABLES pc, call, reached, outcome, hr0, sol, hr, cmap

vars == <<pc, call, reached, outcome, hr0, sol, hr, cmap>>

(***************************************************************************)
(* Bounds of the model.                                                    *)
(***************************************************************************)
MaxN == 4

MaxWinding == 1

(***************************************************************************)
(* Fixed-point scales and float specials.                                  *)
(***************************************************************************)
One == 1000

Fin(n) == [kind |-> "fin", val |-> n]
NaN == [kind |-> "nan", val |-> 0]
PosInf == [kind |-> "inf", val |-> 1]
NegInf == [kind |-> "inf", val |-> -1]

IsFinite(v) == v.kind = "fin"

Abs(n) == IF n < 0 THEN -n ELSE n

RECURSIVE SqrtSearch(_, _, _)
SqrtSearch(n, lo, hi) ==
  IF lo >= hi THEN lo
  ELSE LET mid == (lo + hi + 1) \div 2
       IN  IF mid * mid <= n THEN SqrtSearch(n, mid, hi)
                             ELSE SqrtSearch(n, lo, mid - 1)

\* floor of the square root (46340 is the largest root of a 32-bit integer)
Sqrt(n) == SqrtSearch(n, 0, IF n < 46340 THEN n ELSE 46340)

RECURSIVE SumSeq(_)
SumSeq(s) == IF s = <<>> THEN 0 ELSE s[1] + SumSeq(Tail(s))

\* np.diff
Diff(s) == [k \in 1..(Len(s) - 1) |-> s[k + 1] - s[k]]

\* np.hypot
Hypot(a, b) == Sqrt(a * a + b * b)

\* np.mean
Mean(s) == SumSeq(s) \div Len(s)

(***************************************************************************)
(* np.linspace(start, stop, num) with endpoint=True: num samples, the i-th *)
(* at start + i*(stop-start)/(num-1), the last one set to stop exactly;    *)
(* with num = 1 there is no division and the only sample is start.         *)
(***************************************************************************)
LinspaceNoEndpoint(start, stop, num) ==
  [i \in 1..num |-> start + ((i - 1) * (stop - start)) \div num]

Linspace(start, stop, num) ==
  [i \in 1..num |->
     IF num > 1 /\ i = num THEN stop
     ELSE IF num > 1 THEN start + ((i - 1) * (stop - start)) \div (num - 1)
     ELSE start]

(***************************************************************************)
(* np.interp(x, xp, fp) at one abscissa, as numpy's arr_interp does it:    *)
(* below xp[first] the left value, above xp[last] the right value,         *)
(* otherwise j is the last index with xp[j] <= x; on the last node or on   *)
(* an exact hit the node's value is returned as is, else the value on the  *)
(* segment j..j+1.  xp is not checked for being increasing.                *)
(***************************************************************************)
InterpIndex(x, xp) ==
  CHOOSE j \in 1..Len(xp) :
    /\ xp[j] <= x
    /\ \A i \in (j + 1)..Len(xp) : xp[i] > x

\* the same with the segment's value taken from node j+1 and no exact-hit case
Interp1FromNextNode(x, xp, fp) ==
  IF x > xp[Len(xp)] THEN fp[Len(fp)]
  ELSE IF x < xp[1] THEN fp[1]
  ELSE LET j == InterpIndex(x, xp)
       IN  IF j = Len(xp) THEN fp[j]
           ELSE ((fp[j + 1] - fp[j]) * (x - xp[j])) \div (xp[j + 1] - xp[j]) + fp[j + 1]

Interp1(x, xp, fp) ==
  IF x > xp[Len(xp)] THEN fp[Len(fp)]
  ELSE IF x < xp[1] THEN fp[1]
  ELSE LET j == InterpIndex(x, xp)
       IN  IF j = Len(xp) THEN fp[j]
           ELSE IF xp[j] = x THEN fp[j]
           ELSE ((fp[j + 1] - fp[j]) * (x - xp[j])) \div (xp[j + 1] - xp[j]) + fp[j]

Interp(x, xp, fp) == [i \in 1..Len(x) |-> Interp1(x[i], xp, fp)]

(***************************************************************************)
(* The uniform-space adapter, cs.cspace_convert.  It is an external        *)
(* library; what the generators rely on is a pair of pure row-wise maps.   *)
(* Stand-in: an opponent transform (lightness, red-green, yellow-blue) and *)
(* its inverse, which leaves the RGB cube for points outside the gamut.    *)
(* The inverse of CIECAM02 takes the square root of J and divides by it:   *)
(* a negative lightness yields NaN, a zero lightness a division by zero    *)
(* whose result (zeroResult) the library decides.                          *)
(***************************************************************************)
ToUniform(rgb) ==
  <<(rgb[1] + rgb[2] + rgb[3]) \div 3,
    rgb[1] - rgb[2],
    (rgb[1] + rgb[2]) \div 2 - rgb[3]>>

FromUniform(jab, zeroResult) ==
  IF jab[1] < 0 THEN <<NaN, NaN, NaN>>
  ELSE IF jab[1] = 0 THEN <<zeroResult, zeroResult, zeroResult>>
  ELSE <<Fin(jab[1] + jab[2] \div 2 + jab[3] \div 3),
         Fin(jab[1] - jab[2] \div 2 + jab[3] \div 3),
         Fin(jab[1] - (2 * jab[3]) \div 3)>>

ZeroResults == {Fin(0), NaN, PosInf}

(***************************************************************************)
(* np.clip(v, 0.0, 1.0) = minimum(maximum(v, 0.0), 1.0): NaN propagates    *)
(* through both, the infinities are clipped.                               *)
(***************************************************************************)
Clip(v) ==
  IF v.kind = "nan" THEN NaN
  ELSE IF v.kind = "inf" THEN (IF v.val < 0 THEN Fin(0) ELSE Fin(One))
  ELSE IF v.val < 0 THEN Fin(0)
  ELSE IF v.val > One THEN Fin(One)
  ELSE v

ClipRgb(rgb) == <<Clip(rgb[1]), Clip(rgb[2]), Clip(rgb[3])>>

\* x_rgb1 = [(x_val, rgb1_val) for ... in zip(x, rgb1)]; from_list(name, x_rgb1)
FromList(x, rgb1) == [i \in 1..Len(x) |-> [x |-> x[i], rgb |-> rgb1[i]]]


(***************************************************************************)
(* segment_uniform(anchors, samples_rgb1, name, num_points).               *)
(***************************************************************************)
Column(points, c) == [i \in 1..Len(points) |-> points[i][c]]

SegmentJjab(anchors, samples_rgb1, num_points) ==
  LET x == Linspace(0, One, num_points)
      samples_jjab == [i \in 1..Len(samples_rgb1) |-> ToUniform(samples_rgb1[i])]
      jjp == Interp(x, anchors, Column(samples_jjab, 1))
      ap == Interp(x, anchors, Column(samples_jjab, 2))
      bp == Interp(x, anchors, Column(samples_jjab, 3))
  IN  [i \in 1..num_points |-> <<jjp[i], ap[i], bp[i]>>]

\* lines 32-42, shared by both generators: convert back, clip, zip with x
Finalize(x, jjab, zeroResult) ==
  FromList(x, [i \in 1..Len(jjab) |-> ClipRgb(FromUniform(jjab[i], zeroResult))])

\* what the adapter may answer for the zero-lightness rows of jjab
ZeroChoices(jjab) ==
  IF \E i \in 1..Len(jjab) : jjab[i][1] = 0 THEN ZeroResults ELSE {Fin(0)}

NoEndpoint == [jj |-> Fin(0), mm |-> Fin(0), h |-> Fin(0)]

NoSol == [status |-> -9, x |-> <<>>]

SegmentCall(anchors, samples_rgb1, num_points, zero) ==
  [op |-> "segment_uniform", name |-> "segment_uniform",
   anchors |-> anchors, samples |-> samples_rgb1,
   start |-> NoEndpoint, end |-> NoEndpoint, winding |-> 0,
   num_points |-> num_points, zero |-> zero]

segment_uniform(anchors, samples_rgb1, num_points) ==
  /\ pc = "idle"
  /\ pc' = "done"
  /\ hr0' = <<>>
  /\ sol' = NoSol
  /\ hr' = <<>>
  /\ IF Len(anchors) # Len(samples_rgb1)
     THEN \* np.interp: "fp and xp are not of the same length"
          /\ call' = SegmentCall(anchors, samples_rgb1, num_points, Fin(0))
          /\ reached' = {"linspace", "to_uniform"}
          /\ outcome' = "ValueError"
          /\ cmap' = <<>>
     ELSE LET x == Linspace(0, One, num_points)
              jjab == SegmentJjab(anchors, samples_rgb1, num_points)
          IN  \E zero \in ZeroChoices(jjab) :
                /\ call' = SegmentCall(anchors, samples_rgb1, num_points, zero)
                /\ reached' = {"linspace", "to_uniform", "interp",
                               "from_uniform", "clip", "register"}
                /\ outcome' = "returned"
                /\ cmap' = Finalize(x, jjab, zero)

(***************************************************************************)
(* helix_uniform(start_jjmmh, end_jjmmh, winding_num, name, num_points).   *)
(***************************************************************************)
\* c1 = 0.007, in thousandths
c1 == 7

\* c2 = 0.0228, in ten-thousandths
c2 == 228

\* np.pi, in angle units
Pi == 12

hr_max_dev_half_pi == Pi \div 2

\* hr_max_dev = np.pi / 4.0
hr_max_dev == Pi \div 4

\* np.cos and np.sin on the angle grid, scaled by 1000
CosTable == <<1000, 966, 866, 707, 500, 259, 0>>

Cos(a) ==
  LET m == a % (2 * Pi)
      q == Pi \div 2
  IN  IF m <= q THEN CosTable[m + 1]
      ELSE IF m <= 2 * q THEN -CosTable[Pi - m + 1]
      ELSE IF m <= 3 * q THEN -CosTable[m - Pi + 1]
      ELSE CosTable[2 * Pi - m + 1]

Sin(a) == Cos(a - Pi \div 2)

\* np.log, argument and result in ten-thousandths, on the arguments
\* 1 + c2*mm the chroma inputs give
Log(arg) ==
  CASE arg = 10000 -> 0
    [] arg = 14560 -> 3757
    [] arg = 21400 -> 7608

\* jjp = (1.0 + 100.0 * c1) * jj / (1.0 + c1 * jj), in tenths
JjPrime(jj) == ((1000 + 100 * c1) * jj * 10) \div (1000 + c1 * jj)

\* mmp = np.log(1.0 + c2 * mm) / c2, in tenths
MmPrime(mm) == (Log(10000 + c2 * mm) * 10) \div c2

\* hr = h * np.pi / 180.0
Radians(h) == (h * Pi) \div 180

EndpointFinite(e) == IsFinite(e.jj) /\ IsFinite(e.mm) /\ IsFinite(e.h)

\* lines 72-74: the regular helix
HelixJjp(start, end, num_points) ==
  Linspace(JjPrime(start.jj.val), JjPrime(end.jj.val), num_points)

HelixMmp(start, end, num_points) ==
  Linspace(MmPrime(start.mm.val), MmPrime(end.mm.val), num_points)

HelixHr(start, end, winding_num, num_points) ==
  Linspace(Radians(start.h.val), Radians(end.h.val) + 2 * Pi * winding_num, num_points)

\* hr_vals = np.concatenate(([hr[0]], hr_int_vals, [hr[-1]]))
ConcatDropLast(hrn, hr_int_vals) == <<hrn[1]>> \o hr_int_vals \o <<hrn[1]>>

Concat(hrn, hr_int_vals) == <<hrn[1]>> \o hr_int_vals \o <<hrn[Len(hrn)]>>

ApVals(mmp, hr_vals) == [i \in 1..Len(mmp) |-> (mmp[i] * Cos(hr_vals[i])) \div 1000]

BpVals(mmp, hr_vals) == [i \in 1..Len(mmp) |-> (mmp[i] * Sin(hr_vals[i])) \div 1000]

\* deep_vals = np.hypot(np.diff(jjp), np.hypot(np.diff(ap_vals), np.diff(bp_vals)))
DeepVals(jjp, mmp, hr_vals) ==
  LET dj == Diff(jjp)
      da == Diff(ApVals(mmp, hr_vals))
      db == Diff(BpVals(mmp, hr_vals))
  IN  [k \in 1..(Len(jjp) - 1) |-> Hypot(dj[k], Hypot(da[k], db[k]))]

\* the residuals without the mean taken off
resNoMean(jjp, mmp, hrn, hr_int_vals) == DeepVals(jjp, mmp, Concat(hrn, hr_int_vals))

\* def res(hr_int_vals), lines 77-82
res(jjp, mmp, hrn, hr_int_vals) ==
  LET deep_vals == DeepVals(jjp, mmp, Concat(hrn, hr_int_vals))
      mean == Mean(deep_vals)
  IN  [k \in 1..Len(deep_vals) |-> deep_vals[k] - mean]

(***************************************************************************)
(* def jac(hr_int_vals), lines 83-94.  Rows and columns are numbered from  *)
(* 0 as in the code; JacEntry is the value written at (k, j), a division   *)
(* by deep_vals[k]: non-finite where that step has length 0.               *)
(***************************************************************************)
JacFilled(num_points) ==
  {<<0, 0>>}
    \cup UNION { {<<k, k - 1>>, <<k, k>>} : k \in 1..(num_points - 3) }
    \cup {<<num_points - 2, num_points - 3>>}

JacQuotient(num, den) ==
  IF den # 0 THEN Fin(num \div (den * 1000))
  ELSE IF num = 0 THEN NaN
  ELSE IF num > 0 THEN PosInf ELSE NegInf

JacEntry(jjp, mmp, hr_vals, k, j) ==
  LET deep_vals == DeepVals(jjp, mmp, hr_vals)
      n == Len(jjp)
  IN  IF <<k, j>> \notin JacFilled(n) THEN Fin(0)
      ELSE IF k = n - 2
        THEN JacQuotient(mmp[n - 1] * mmp[n] * Sin(hr_vals[n] - hr_vals[n - 1]),
                         deep_vals[n - 1])
      ELSE IF k = 0
        THEN JacQuotient(mmp[1] * mmp[2] * Sin(hr_vals[2] - hr_vals[1]), deep_vals[1])
      ELSE IF j = k - 1
        THEN JacQuotient(mmp[k + 1] * mmp[k + 2] * Sin(hr_vals[k + 1] - hr_vals[k + 2]),
                         deep_vals[k + 1])
      ELSE JacQuotient(-(mmp[k + 1] * mmp[k + 2] * Sin(hr_vals[k + 1] - hr_vals[k + 2])),
                       deep_vals[k + 1])

jac(jjp, mmp, hrn, hr_int_vals) ==
  [p \in (0..(Len(jjp) - 2)) \X (0..(Len(jjp) - 3)) |->
     JacEntry(jjp, mmp, Concat(hrn, hr_int_vals), p[1], p[2])]

\* lines 95-99: the entries of jac_sparsity set to 1.0
jac_sparsity(num_points) ==
  {<<0, 0>>}
    \cup UNION { {<<k, j>> : j \in (k - 1)..k} : k \in 1..(num_points - 3) }
    \cup {<<num_points - 2, num_points - 3>>}

(***************************************************************************)
(* scipy.optimize.least_squares(res, x0, jac=jac, bounds=bounds, ...): the *)
(* bounded trust-region solver, an external library.  It raises ValueError *)
(* on non-finite input; otherwise it returns an iterate inside the bounds  *)
(* together with a termination status, 0 meaning that the evaluation limit *)
(* was reached before convergence (1 and 2 are convergence tests met; 3    *)
(* and 4 are handled by the caller like those).  It accepts a step only if the cost     *)
(* 0.5*sum(res**2) decreases, so its result costs no more than x0.  A      *)
(* non-finite Jacobian at x0 makes its first factorization raise.          *)
(***************************************************************************)
SolverStatuses == {0, 1, 2}

SumSquares(f) == SumSeq([k \in 1..Len(f) |-> f[k] * f[k]])

\* the vectors x with lb <= x <= ub
RECURSIVE Box(_, _)
Box(lb, ub) ==
  IF lb = <<>> THEN {<<>>}
  ELSE {<<v>> \o rest : v \in (lb[1])..(ub[1]), rest \in Box(Tail(lb), Tail(ub))}

JacFiniteAt(jjp, mmp, hrn, x) ==
  LET J == jac(jjp, mmp, hrn, x)
  IN  \A p \in DOMAIN J : IsFinite(J[p])

Failure(error) == [error |-> error, status |-> -9, x |-> <<>>]

least_squares(jjp, mmp, hrn, x0, lb, ub) ==
  IF ~JacFiniteAt(jjp, mmp, hrn, x0)
  THEN {Failure("ValueError")}
  ELSE LET cost0 == SumSquares(res(jjp, mmp, hrn, x0))
       IN  {[error |-> "none", status |-> st, x |-> x] :
              st \in SolverStatuses,
              x \in {y \in Box(lb, ub) :
                       SumSquares(res(jjp, mmp, hrn, y)) <= cost0}}

Interior(s) == [i \in 1..(Len(s) - 2) |-> s[i + 1]]

\* a caller that refuses a result whose status is not a convergence
RaiseUnlessConverged(s) == IF s.status <= 0 THEN "RuntimeError" ELSE "none"

\* line 102 takes sol.x as it is: no look at sol.status or sol.success
AfterSolve(s) == "none"

HelixCall(start, end, winding_num, num_points, zero) ==
  [op |-> "helix_uniform", name |-> "helix_uniform",
   anchors |-> <<>>, samples |-> <<>>,
   start |-> start, end |-> end, winding |-> winding_num,
   num_points |-> num_points, zero |-> zero]

HelixJjab(jjp, mmp, hrv) ==
  LET ap == ApVals(mmp, hrv)
      bp == BpVals(mmp, hrv)
  IN  [i \in 1..Len(jjp) |-> <<jjp[i], ap[i], bp[i]>>]

\* the call ends in an exception: nothing is built, nothing registered
HelixRaises(start, end, winding_num, num_points, error, stages, hrn, s) ==
  /\ call' = HelixCall(start, end, winding_num, num_points, Fin(0))
  /\ reached' = stages
  /\ outcome' = error
  /\ hr0' = hrn
  /\ sol' = s
  /\ hr' = <<>>
  /\ cmap' = <<>>

helix_uniform(start, end, winding_num, num_points) ==
  /\ pc = "idle"
  /\ pc' = "done"
  /\ IF num_points = 1
     THEN \* np.zeros((0, -1)): negative dimensions are not allowed
          HelixRaises(start, end, winding_num, num_points, "ValueError", {"path"}, <<>>, NoSol)
     ELSE IF num_points = 2
     THEN \* jac_sparsity[0,0] on an array of shape (1, 0)
          HelixRaises(start, end, winding_num, num_points, "IndexError", {"path"}, <<>>, NoSol)
     ELSE IF ~(EndpointFinite(start) /\ EndpointFinite(end))
     THEN \* the helix holds NaN: least_squares rejects x0 or the residuals
          HelixRaises(start, end, winding_num, num_points, "ValueError",
                      {"path", "sparsity", "solver"}, <<>>, NoSol)
     ELSE LET x == Linspace(0, One, num_points)
              jjp == HelixJjp(start, end, num_points)
              mmp == HelixMmp(start, end, num_points)
              hrn == HelixHr(start, end, winding_num, num_points)
              x0 == Interior(hrn)
              lb == [i \in 1..Len(x0) |-> x0[i] - hr_max_dev]
              ub == [i \in 1..Len(x0) |-> x0[i] + hr_max_dev]
          IN  \E s \in least_squares(jjp, mmp, hrn, x0, lb, ub) :
                IF s.error # "none"
                THEN HelixRaises(start, end, winding_num, num_points, s.error,
                                 {"path", "sparsity", "solver"}, hrn, NoSol)
                ELSE IF AfterSolve(s) # "none"
                THEN HelixRaises(start, end, winding_num, num_points, AfterSolve(s),
                                 {"path", "sparsity", "solver"}, hrn,
                                 [status |-> s.status, x |-> s.x])
                ELSE LET hrv == Concat(hrn, s.x)
                         jjab == HelixJjab(jjp, mmp, hrv)
                     IN  \E zero \in ZeroChoices(jjab) :
                           /\ call' = HelixCall(start, end, winding_num, num_points, zero)
                           /\ reached' = {"path", "sparsity", "solver",
                                          "from_uniform", "clip", "register"}
                           /\ outcome' = "returned"
                           /\ hr0' = hrn
                           /\ sol' = [status |-> s.status, x |-> s.x]
                           /\ hr' = hrv
                           /\ cmap' = Finalize(x, jjab, zero)

(***************************************************************************)
(* The caller takes the result; the next call starts from scratch: the     *)
(* generators keep no state between calls.  (The plotting backend's        *)
(* registry is outside the program; "register" in reached records that     *)
(* cm.register_cmap was called.)                                           *)
(***************************************************************************)
Return ==
  /\ pc = "done"
  /\ pc' = "idle"
  /\ call' = SegmentCall(<<>>, <<>>, 0, Fin(0))
  /\ reached' = {}
  /\ outcome' = "none"
  /\ hr0' = <<>>
  /\ sol' = NoSol
  /\ hr' = <<>>
  /\ cmap' = <<>>

(***************************************************************************)
(* Inputs.                                                                 *)
(***************************************************************************)
Black == <<0, 0, 0>>
Gray == <<500, 500, 500>>
White == <<1000, 1000, 1000>>
Red == <<1000, 0, 0>>

Palette == {Black, Gray, White, Red}

AnchorInputs ==
  { <<0, 1000>>, <<0, 500, 1000>>, <<0, 250, 1000>>,
    <<250, 1000>>, <<0, 500>>, <<0, 500, 500, 1000>> }

SampleInputs ==
  (UNION { [1..n -> Palette] : n \in 2..3 })
    \cup { <<Black, Gray, Red, White>>, <<Black, Red, Gray, White>> }

NumPoints == 1..MaxN

Endpoint(jj, mm, h) == [jj |-> jj, mm |-> mm, h |-> h]

EndpointInputs ==
  { Endpoint(Fin(10), Fin(0), Fin(0)),
    Endpoint(Fin(90), Fin(0), Fin(0)),
    Endpoint(Fin(20), Fin(50), Fin(0)),
    Endpoint(Fin(80), Fin(20), Fin(90)),
    Endpoint(Fin(-10), Fin(20), Fin(0)),
    Endpoint(Fin(50), Fin(20), NaN) }

Windings == 0..MaxWinding

Init ==
  /\ pc = "idle"
  /\ call = SegmentCall(<<>>, <<>>, 0, Fin(0))
  /\ reached = {}
  /\ outcome = "none"
  /\ hr0 = <<>>
  /\ sol = NoSol
  /\ hr = <<>>
  /\ cmap = <<>>

Next ==
  \/ \E anchors \in AnchorInputs, samples_rgb1 \in SampleInputs, num_points \in NumPoints :
       segment_uniform(anchors, samples_rgb1, num_points)
  \/ \E start \in EndpointInputs, end \in EndpointInputs,
        winding_num \in Windings, num_points \in NumPoints :
       helix_uniform(start, end, winding_num, num_points)
  \/ Return

Spec == Init /\ [][Next]_vars


(***************************************************************************)
(* Properties of segment_uniform.                                          *)
(***************************************************************************)
StrictlyIncreasing(s) == \A i \in 1..(Len(s) - 1) : s[i] < s[i + 1]

\* an Anchor Set: positions from 0 to 1, strictly increasing, one color each
ValidAnchors(anchors, samples_rgb1) ==
  /\ Len(anchors) >= 2
  /\ Len(anchors) = Len(samples_rgb1)
  /\ anchors[1] = 0
  /\ anchors[Len(anchors)] = One
  /\ StrictlyIncreasing(anchors)

SegmentDone == pc = "done" /\ call.op = "segment_uniform"

SegmentReturned == SegmentDone /\ outcome = "returned"

Positions == [i \in 1..Len(cmap) |-> cmap[i].x]

PositionsWellFormed ==
  /\ Len(cmap) = call.num_points
  /\ cmap[1].x = 0
  /\ cmap[Len(cmap)].x = One
  /\ StrictlyIncreasing(Positions)

InUnit(v) == v.kind = "fin" /\ 0 <= v.val /\ v.val <= One

\* C1 (as claimed): every component of every RGB triple of a returned
\* colormap lies in [0,1], whatever the inverse conversion produced,
\* non-finite values included.  (Granted here: the adapter answers its
\* zero-lightness rows with a number or an infinity, not with NaN.)
C1_AllComponentsInUnit ==
  (pc = "done" /\ outcome = "returned" /\ call.zero # NaN) =>
    \A i \in 1..Len(cmap) : \A c \in 1..3 : InUnit(cmap[i].rgb[c])

\* C2 (as claimed): for every valid Anchor Set and every N >= 1 the colormap
\* of segment_uniform has N points, starts at 0, ends at 1 and its positions
\* increase strictly.
C2_PositionsFromOne ==
  (SegmentReturned /\ ValidAnchors(call.anchors, call.samples)
     /\ call.num_points >= 1) => PositionsWellFormed

\* C2 (amended): the same for every N >= 2; with N = 1 the only position is 0.
C2_Positions ==
  (SegmentReturned /\ ValidAnchors(call.anchors, call.samples)
     /\ call.num_points >= 2) => PositionsWellFormed

C2_Witness ==
  /\ SegmentReturned
  /\ ValidAnchors(call.anchors, call.samples)
  /\ call.num_points >= 3
  /\ PositionsWellFormed

\* C3 (as claimed): segment_uniform fails with InvalidAnchors and returns no
\* colormap whenever the anchor positions do not start at 0 and end at 1,
\* are not strictly increasing, or differ in number from the colors.  (Any
\* error raised is taken for InvalidAnchors.)
C3_InvalidAnchorsRejected ==
  (SegmentDone /\ ~ValidAnchors(call.anchors, call.samples)) =>
    (outcome \notin {"none", "returned"} /\ cmap = <<>>)

\* C9: in a colormap segment_uniform returns for an Anchor Set, the color at
\* a sample position that coincides with an anchor position is that anchor's
\* color converted to uniform space, converted back and clipped; no other
\* anchor enters.
C9_AnchorColorAtSample ==
  (SegmentReturned /\ ValidAnchors(call.anchors, call.samples)) =>
    \A j \in 1..Len(call.anchors) : \A i \in 1..Len(cmap) :
      cmap[i].x = call.anchors[j] =>
        cmap[i].rgb = ClipRgb(FromUniform(ToUniform(call.samples[j]), call.zero))

\* an interior anchor on a sample position, its color unlike its neighbours'
C9_Witness ==
  /\ SegmentReturned
  /\ ValidAnchors(call.anchors, call.samples)
  /\ \E j \in 2..(Len(call.anchors) - 1) : \E i \in 2..(Len(cmap) - 1) :
       /\ cmap[i].x = call.anchors[j]
       /\ call.samples[j] # call.samples[j - 1]
       /\ call.samples[j] # call.samples[j + 1]
       /\ cmap[i].rgb = ClipRgb(FromUniform(ToUniform(call.samples[j]), call.zero))


(***************************************************************************)
(* Properties of helix_uniform.                                            *)
(***************************************************************************)
HelixDone == pc = "done" /\ call.op = "helix_uniform"

HelixReturned == HelixDone /\ outcome = "returned"

\* a Helix Endpoint: finite, lightness in [0,100], chroma >= 0, hue in [0,360]
ValidEndpoint(e) ==
  /\ EndpointFinite(e)
  /\ 0 <= e.jj.val /\ e.jj.val <= 100
  /\ 0 <= e.mm.val
  /\ 0 <= e.h.val /\ e.h.val <= 360

ValidEndpoints == ValidEndpoint(call.start) /\ ValidEndpoint(call.end)

\* C4 (as claimed): an endpoint with a non-finite or out-of-domain
\* lightness, chroma or hue makes helix_uniform raise before any
\* computation: no path built, no solver call, nothing registered.  (Any
\* error raised is taken for InvalidEndpoint, and of "before" only the last
\* part is asked for: nothing is registered.)
C4_InvalidEndpointRejected ==
  (HelixDone /\ ~ValidEndpoints) =>
    (outcome \notin {"none", "returned"} /\ "register" \notin reached)

\* C5: for valid endpoints, whatever termination status the solver reports,
\* helix_uniform returns a colormap of N points built on the solver's
\* iterate.
C5_StatusNotFatal ==
  (HelixDone /\ ValidEndpoints /\ sol.status \in SolverStatuses) =>
    /\ outcome = "returned"
    /\ Len(cmap) = call.num_points
    /\ Interior(hr) = sol.x

\* the solver stopped at its evaluation limit, away from its starting point
C5_Witness ==
  /\ HelixReturned
  /\ ValidEndpoints
  /\ sol.status = 0
  /\ sol.x # Interior(hr0)
  /\ Len(cmap) = call.num_points
  /\ Interior(hr) = sol.x

\* the naive hue sweep, by linear interpolation in the index
HueStart == Radians(call.start.h.val)

HueStop == Radians(call.end.h.val) + 2 * Pi * call.winding

NaiveHue(i) == HueStart + ((i - 1) * (HueStop - HueStart)) \div (call.num_points - 1)

\* C6: in the hue sequence of the final colormap every interior angle is
\* within pi/4 of its naive value, and the first and the last are the naive
\* ones: the start hue and the end hue + 2*pi*winding_num.
C6_HueWithinBounds ==
  HelixReturned =>
    /\ Len(hr) = call.num_points
    /\ hr[1] = HueStart
    /\ hr[Len(hr)] = HueStop
    /\ \A i \in 2..(Len(hr) - 1) : Abs(hr[i] - NaiveHue(i)) <= Pi \div 4

\* an interior angle on its bound
C6_Witness ==
  /\ HelixReturned
  /\ call.num_points >= 4
  /\ \E i \in 2..(Len(hr) - 1) : Abs(hr[i] - NaiveHue(i)) = Pi \div 4
  /\ hr[1] = HueStart
  /\ hr[Len(hr)] = HueStop

HueNonDecreasing == \A i \in 1..(Len(hr) - 1) : hr[i] <= hr[i + 1]

HueNonIncreasing == \A i \in 1..(Len(hr) - 1) : hr[i] >= hr[i + 1]

\* C7 (as claimed): the final hue sequence is monotonic in the direction of
\* the naive sweep, for every N, winding count, pair of endpoint hues and
\* solver result inside the bounds.  (Asked here of valid endpoints only.)
C7_HueMonotonic ==
  (HelixReturned /\ ValidEndpoints) =>
    /\ HueStop > HueStart => HueNonDecreasing
    /\ HueStop < HueStart => HueNonIncreasing

\* consecutive naive hue angles are at least pi/2 apart
NaiveStepAtLeastHalfPi ==
  \A i \in 1..(Len(hr0) - 1) : Abs(hr0[i + 1] - hr0[i]) >= Pi \div 2

\* C7 (amended): the final hue sequence is monotonic in the direction of
\* the naive sweep whenever consecutive naive hue angles are at least pi/2
\* apart (twice the bound); with a smaller naive step the bounds of
\* neighbouring angles overlap and the solver may reorder them.
C7_HueMonotonicWideStep ==
  (HelixReturned /\ NaiveStepAtLeastHalfPi) =>
    /\ HueStop > HueStart => HueNonDecreasing
    /\ HueStop < HueStart => HueNonIncreasing

\* a wide-step helix whose solver result left the naive angles
C7_Witness ==
  /\ HelixReturned
  /\ ValidEndpoints
  /\ NaiveStepAtLeastHalfPi
  /\ call.num_points >= 4
  /\ HueStop > HueStart
  /\ sol.x # Interior(hr0)
  /\ HueNonDecreasing

\* (N-1) * variance of the consecutive step distances of the helix with
\* hue angles hrv; the standard deviation is its square root over N-1
StepSpread(hrv) ==
  LET start == call.start
      end == call.end
      n == call.num_points
      d == DeepVals(HelixJjp(start, end, n), HelixMmp(start, end, n), hrv)
      mean == Mean(d)
  IN  SumSeq([k \in 1..Len(d) |-> (d[k] - mean) * (d[k] - mean)])

\* C8 (as claimed): for winding counts >= 0 and N >= 4 the standard
\* deviation of the step distances of the optimized helix is strictly less
\* than that of the naive helix.  (Asked here of valid endpoints only.)
C8_SpreadStrictlyLess ==
  (HelixReturned /\ ValidEndpoints /\ call.winding >= 0 /\ call.num_points >= 4) =>
    StepSpread(hr) < StepSpread(hr0)

\* C8 (amended): for winding counts >= 0 and N >= 4 the standard deviation
\* of the step distances of the optimized helix is less than or equal to
\* that of the naive helix; it is equal, for one, when both chromas are 0.
C8_SpreadNotGreater ==
  (HelixReturned /\ call.winding >= 0 /\ call.num_points >= 4) =>
    StepSpread(hr) <= StepSpread(hr0)

\* an optimized helix strictly more uniform than the naive one
C8_Witness ==
  /\ HelixReturned
  /\ ValidEndpoints
  /\ call.winding >= 0
  /\ call.num_points >= 4
  /\ StepSpread(hr) < StepSpread(hr0)

\* residual k changes when interior angle j alone moves inside its bounds
\* (k and j from 0, as in the code)
ResDependsOn(k, j) ==
  LET start == call.start
      end == call.end
      n == call.num_points
      jjp == HelixJjp(start, end, n)
      mmp == HelixMmp(start, end, n)
  IN  \E v \in (hr0[j + 2] - hr_max_dev)..(hr0[j + 2] + hr_max_dev) :
        res(jjp, mmp, hr0, [sol.x EXCEPT ![j + 1] = v])[k + 1]
          # res(jjp, mmp, hr0, sol.x)[k + 1]

\* C10 (as claimed): every (residual, interior angle) pair on which the
\* vector returned by res depends lies inside the pattern that
\* jac_sparsity declares and jac fills.  (Asked here of valid endpoints
\* only.)
C10_ResidualWithinSparsity ==
  (HelixReturned /\ ValidEndpoints) =>
    \A k \in 0..(call.num_points - 2) : \A j \in 0..(call.num_points - 3) :
      ResDependsOn(k, j) =>
        (<<k, j>> \in jac_sparsity(call.num_points)
           /\ <<k, j>> \in JacFilled(call.num_points))

=============================================================================
